---- MODULE Spec2Model ----
(***************************************************************************)
(* Model of the entity-component store ECS of src/src/Manager.hpp.         *)
(*                                                                         *)
(* A Bitfield (an unsigned 32-bit word) is modelled as the set of its bit  *)
(* positions that are 1, a subset of 0..W-1: a flag 2^k is {k}, the word 0 *)
(* is {}.  Bitwise OR is union, AND-NOT is set difference, doubling is a   *)
(* left shift that drops the bit leaving the word.                         *)
(* Component types are named by the naturals 1, 2, ... (typeid names).     *)
(* The variable last records the most recent call, what it returned or     *)
(* threw, and the events it broadcast.                                     *)
(***************************************************************************)
EXTENDS Integers, Sequences, FiniteSets, TLC

\* ---------------------------------------------------------------- bounds
\* entities created under Spec (entityIndex is capped in the guard)
MaxEntities == 2
\* component types under Spec
NumTypes == 2
\* component values 1..MaxValue
MaxValue == 2
\* total length of the membership vectors under Spec (repeated adds grow them)
MaxIndexLen == 2
\* number of type arguments of a query under Spec
MaxQueryLen == 2
\* entities created, and total length of the membership vectors, under SpecCap
MaxCapEntities == 1
MaxCapAdds == 1
\* entities created, and total length of the membership vectors, under SpecEvents
MaxEvEntities == 1
MaxEvAdds == 2
\* handlers, and subscriptions made in all, under SpecEvents
MaxHandlers == 2
MaxSubscriptions == 2

\* ------------------------------------------------------ program constants
\* width of bitfield::Bitfield / unsigned int
W == 32

Types == 1..NumTypes
Values == 1..MaxValue
UUIDs == 0..(MaxEntities - 1)
\* a default-constructed component value, T()
DefaultValue == 0
\* a null T*
NullPtr == -1
\* what a read through a pointer to reused memory may yield
Garbage == [UUID |-> -1, bitfield |-> {}]

VARIABLES entityIndex, bitIndex, entities, components, componentIndex,
          individualComponentVecs, subscribers, last

vars == <<entityIndex, bitIndex, entities, components, componentIndex,
          individualComponentVecs, subscribers, last>>

store == <<entityIndex, bitIndex, entities, components, componentIndex,
           individualComponentVecs>>

\* ------------------------------------------------------------- bitfield
\* bitfield.hpp: Set is bitwise OR, Clear is AND-NOT, Has tests that the AND
\* with the flags equals the flags
Set(field, flag) == field \cup flag

Clear(field, flag) == field \ flag

Has(field, flag) == flag \subseteq field

\* bitIndex *= 2 on a W-bit unsigned word
Times2(field) == {i + 1 : i \in {j \in field : j + 1 < W}}

\* a < b on W-bit unsigned words
Less(a, b) == \E i \in b \ a : \A j \in (i + 1)..(W - 1) : (j \in a) <=> (j \in b)

\* ------------------------------------------------------------- helpers
\* std::map operator[] used as an assignment: insert or overwrite
Put(f, k, v) == [x \in DOMAIN f \cup {k} |-> IF x = k THEN v ELSE f[x]]

\* std::map operator[] used as a read: inserts a default value when absent
Touch(f, k, d) == IF k \in DOMAIN f THEN f ELSE Put(f, k, d)

\* a new entity: its id and an empty membership mask
Entity(uuid) == [UUID |-> uuid, bitfield |-> {}]

Event(kind, uuid, name, value) ==
    [kind |-> kind, entity |-> uuid, name |-> name, value |-> value]

\* ---------------------------------------------------------- EventManager
\* the event type an event is dispatched by: ComponentAdded<T> and
\* ComponentRemoved<T> are one type per component type T
EventKey(ev) == [kind |-> ev.kind, name |-> ev.name]

\* the handlers subscribed to an event type, in subscription order
SubscribersOf(key) == IF key \in DOMAIN subscribers THEN subscribers[key] ELSE <<>>

\* a dispatch that reaches only the handler subscribed first
DeliverOneFirstOnly(ev) ==
    [i \in 1..(IF Len(SubscribersOf(EventKey(ev))) > 0 THEN 1 ELSE 0) |->
        [handler |-> SubscribersOf(EventKey(ev))[i], event |-> ev]]

\* a dispatch that falls back on the handlers of another event type when the
\* event's own type has none
DeliverOneAnyType(ev) ==
    LET key == IF SubscribersOf(EventKey(ev)) = <<>> /\ DOMAIN subscribers # {}
               THEN CHOOSE k \in DOMAIN subscribers : TRUE
               ELSE EventKey(ev)
    IN [i \in 1..Len(SubscribersOf(key)) |->
           [handler |-> SubscribersOf(key)[i], event |-> ev]]

\* Broadcast of one event: every subscriber of its type, in subscription order
DeliverOne(ev) ==
    [i \in 1..Len(SubscribersOf(EventKey(ev))) |->
        [handler |-> SubscribersOf(EventKey(ev))[i], event |-> ev]]

\* the handler invocations made by the broadcasts of a call, in order
RECURSIVE Deliver(_)
Deliver(events) ==
    IF events = <<>> THEN <<>>
    ELSE DeliverOne(Head(events)) \o Deliver(Tail(events))

\* what a handler sees of no component
NothingSeen == [has |-> FALSE, value |-> -1, occurrences |-> 0]

\* a call: its arguments, whether it returned ("ok") or what it threw, the
\* events it broadcast in order, the handler invocations these made, what
\* the caller reads from its result, and (seen) what HasComponent, GetComponent
\* and the membership index show of the call's entity and type while the
\* component event of the call is being broadcast
Call(op, uuid, name, names, value, outcome, events, result) ==
    [op |-> op, entity |-> uuid, name |-> name, names |-> names, value |-> value,
     outcome |-> outcome, events |-> events, result |-> result, intact |-> TRUE,
     delivered |-> Deliver(events), seen |-> NothingSeen]

ComponentIsRegistered(componentName) == componentName \in DOMAIN components

\* position of the first element of seq whose UUID is uuid, 0 when none
FirstIndexOf(seq, uuid) ==
    IF \E i \in 1..Len(seq) : seq[i].UUID = uuid
    THEN CHOOSE i \in 1..Len(seq) :
            /\ seq[i].UUID = uuid
            /\ \A j \in 1..(i - 1) : seq[j].UUID # uuid
    ELSE 0

\* std::vector::erase of the element at position i
Erase(seq, i) == [k \in 1..(Len(seq) - 1) |-> IF k < i THEN seq[k] ELSE seq[k + 1]]

\* ---------------------------------------------------------------- Init
Init ==
    /\ entityIndex = 0
    /\ bitIndex = {0}
    /\ entities = <<>>
    /\ components = <<>>
    /\ componentIndex = <<>>
    /\ individualComponentVecs = <<>>
    /\ subscribers = <<>>
    /\ last = Call("init", -1, 0, <<>>, 0, "ok", <<>>, <<>>)

\* -------------------------------------------------------- CreateEntity
\* a CreateEntity that does not advance entityIndex
CreateEntityReuseId ==
    /\ UNCHANGED subscribers
    /\ entities' = Append(entities, Entity(entityIndex))
    /\ entityIndex' = entityIndex
    /\ last' = Call("CreateEntity", entityIndex, 0, <<>>, 0, "ok",
                    <<Event("EntityCreated", entityIndex, 0, 0)>>,
                    <<Entity(entityIndex)>>)
    /\ UNCHANGED <<bitIndex, components, componentIndex, individualComponentVecs>>

CreateEntity ==
    /\ UNCHANGED subscribers
    /\ entities' = Append(entities, Entity(entityIndex))
    /\ entityIndex' = entityIndex + 1
    /\ last' = Call("CreateEntity", entityIndex, 0, <<>>, 0, "ok",
                    <<Event("EntityCreated", entityIndex, 0, 0)>>,
                    <<Entity(entityIndex)>>)
    /\ UNCHANGED <<bitIndex, components, componentIndex, individualComponentVecs>>

\* --------------------------------------------------- RegisterComponent
\* a RegisterComponent without the test for an earlier registration
RegisterComponentAlways(t) ==
    /\ UNCHANGED subscribers
    /\ componentIndex' = Put(componentIndex, t, bitIndex)
    /\ components' = Put(components, t, <<>>)
    /\ bitIndex' = Times2(bitIndex)
    /\ last' = Call("RegisterComponent", -1, t, <<>>, 0,
                    IF Less(Times2(bitIndex), bitIndex)
                    THEN "CapacityExceeded" ELSE "ok",
                    <<>>, <<>>)
    /\ UNCHANGED <<entityIndex, entities, individualComponentVecs>>

RegisterComponent(t) ==
    /\ UNCHANGED subscribers
    /\ IF t \notin DOMAIN components
       THEN /\ componentIndex' = Put(componentIndex, t, bitIndex)
            /\ components' = Put(components, t, <<>>)
            /\ bitIndex' = Times2(bitIndex)
            /\ last' = Call("RegisterComponent", -1, t, <<>>, 0,
                            IF Less(Times2(bitIndex), bitIndex)
                            THEN "CapacityExceeded" ELSE "ok",
                            <<>>, <<>>)
            /\ UNCHANGED <<entityIndex, entities, individualComponentVecs>>
       ELSE /\ last' = Call("RegisterComponent", -1, t, <<>>, 0, "ok", <<>>, <<>>)
            /\ UNCHANGED store

\* -------------------------------------------------------- AddComponent
\* a store that keeps the value already present (std::map::insert)
StoreValueKeepOld(data, uuid, v) == IF uuid \in DOMAIN data THEN data ELSE Put(data, uuid, v)

\* container->data[entity] = component
StoreValue(data, uuid, v) == Put(data, uuid, v)

\* the entity list after the loop of AddComponent has set the flag
WithFlagSet(uuid, flag) ==
    [i \in 1..Len(entities) |->
        IF entities[i].UUID = uuid
        THEN [entities[i] EXCEPT !.bitfield = Set(@, flag)]
        ELSE entities[i]]

\* the copies the loop of AddComponent pushes to the component's vector
Pushed(uuid, flag) == SelectSeq(WithFlagSet(uuid, flag), LAMBDA e : e.UUID = uuid)

\* what HasComponent, GetComponent and the membership index show of entity
\* uuid and type t in a store with the given entity list, storage of t and
\* vector of t
SeenIn(view, uuid, t) ==
    LET has == \E i \in 1..Len(view.entities) :
                   /\ view.entities[i].UUID = uuid
                   /\ Has(view.entities[i].bitfield, componentIndex[t])
    IN [has |-> has,
        value |-> IF has THEN Touch(view.data, uuid, DefaultValue)[uuid] ELSE NullPtr,
        occurrences |-> Cardinality({i \in 1..Len(view.vec) : view.vec[i].UUID = uuid})]

\* the vector of type t, empty when the map has none
VecOf(t) ==
    IF t \in DOMAIN individualComponentVecs THEN individualComponentVecs[t] ELSE <<>>

\* a broadcast made on entry to AddComponent, before anything is written
AddBroadcastViewEarly(uuid, t, v) ==
    [entities |-> entities, data |-> components[t], vec |-> VecOf(t)]

\* the store when AddComponent broadcasts ComponentAdded: the value is stored,
\* the flag is set and the entity is pushed to the vector
AddBroadcastView(uuid, t, v) ==
    [entities |-> WithFlagSet(uuid, componentIndex[t]),
     data |-> StoreValue(components[t], uuid, v),
     vec |-> VecOf(t) \o Pushed(uuid, componentIndex[t])]

AddComponent(uuid, t, v) ==
    /\ UNCHANGED subscribers
    /\ IF ~ComponentIsRegistered(t)
       THEN /\ last' = Call("AddComponent", uuid, t, <<>>, v,
                            "ComponentNotRegistered", <<>>, <<>>)
            /\ UNCHANGED store
       ELSE LET flag == componentIndex[t]
                pushed == Pushed(uuid, flag)
                old == IF t \in DOMAIN individualComponentVecs
                       THEN individualComponentVecs[t] ELSE <<>>
            IN /\ components' = [components EXCEPT ![t] = StoreValue(@, uuid, v)]
               /\ entities' = WithFlagSet(uuid, flag)
               /\ individualComponentVecs' =
                     IF pushed = <<>> THEN individualComponentVecs
                     ELSE Put(individualComponentVecs, t, old \o pushed)
               /\ last' = [Call("AddComponent", uuid, t, <<>>, v,
                                IF pushed = <<>> THEN "EntityNotFound" ELSE "ok",
                                [i \in 1..Len(pushed) |->
                                    Event("ComponentAdded", uuid, t, v)],
                                <<>>)
                           EXCEPT !.seen = IF pushed = <<>> THEN NothingSeen
                                           ELSE SeenIn(AddBroadcastView(uuid, t, v),
                                                       uuid, t)]
               /\ UNCHANGED <<entityIndex, bitIndex, componentIndex>>

\* ----------------------------------------------------- RemoveComponent
\* componentVector->second.erase(it) for the first it with it->UUID == e.UUID
EraseFirst(vec, uuid) ==
    IF FirstIndexOf(vec, uuid) = 0 THEN vec ELSE Erase(vec, FirstIndexOf(vec, uuid))

\* the store when RemoveComponent broadcasts ComponentRemoved: the flag is
\* cleared and the first record of the entity is erased from the vector
RemoveBroadcastView(uuid, t) ==
    [entities |-> [entities EXCEPT ![FirstIndexOf(entities, uuid)].bitfield =
                                       Clear(@, componentIndex[t])],
     data |-> Touch(components[t], uuid, DefaultValue),
     vec |-> EraseFirst(VecOf(t), uuid)]

\* a RemoveComponent that looks the entity up before it tests the registration
RemoveComponentLookupFirst(uuid, t) ==
    /\ UNCHANGED subscribers
    /\ IF FirstIndexOf(entities, uuid) = 0
       THEN /\ last' = Call("RemoveComponent", uuid, t, <<>>, 0,
                            "EntityNotFound", <<>>, <<>>)
            /\ UNCHANGED store
       ELSE IF ~ComponentIsRegistered(t)
            THEN /\ last' = Call("RemoveComponent", uuid, t, <<>>, 0,
                                 "ComponentNotRegistered", <<>>, <<>>)
                 /\ UNCHANGED store
            ELSE LET flag == componentIndex[t]
                     i == FirstIndexOf(entities, uuid)
                 IN IF i = 0
                    THEN /\ last' = Call("RemoveComponent", uuid, t, <<>>, 0,
                                         "EntityNotFound", <<>>, <<>>)
                         /\ UNCHANGED store
                    ELSE /\ entities' = [entities EXCEPT ![i].bitfield = Clear(@, flag)]
                         /\ UNCHANGED <<entityIndex, bitIndex, componentIndex>>
                         /\ IF t \notin DOMAIN individualComponentVecs
                            THEN \* find() returned end(): dereferencing it is undefined;
                                 \* the call either faults or walks an empty range
                                 /\ \E outcome \in {"crash", "ok"} :
                                       last' = Call("RemoveComponent", uuid, t, <<>>, 0,
                                                    outcome, <<>>, <<>>)
                                 /\ UNCHANGED <<components, individualComponentVecs>>
                            ELSE LET vec == individualComponentVecs[t]
                                     found == FirstIndexOf(vec, uuid) # 0
                                     data == Touch(components[t], uuid, DefaultValue)
                                 IN /\ individualComponentVecs' =
                                          [individualComponentVecs EXCEPT
                                              ![t] = EraseFirst(vec, uuid)]
                                    /\ components' =
                                          IF found THEN [components EXCEPT ![t] = data]
                                          ELSE components
                                    /\ last' =
                                          [Call("RemoveComponent", uuid, t, <<>>, 0, "ok",
                                                IF found
                                                THEN <<Event("ComponentRemoved", uuid, t,
                                                             data[uuid])>>
                                                ELSE <<>>,
                                                <<>>)
                                           EXCEPT !.seen =
                                               IF found
                                               THEN SeenIn(RemoveBroadcastView(uuid, t), uuid, t)
                                               ELSE NothingSeen]

RemoveComponent(uuid, t) ==
    /\ UNCHANGED subscribers
    /\ IF ~ComponentIsRegistered(t)
       THEN /\ last' = Call("RemoveComponent", uuid, t, <<>>, 0,
                            "ComponentNotRegistered", <<>>, <<>>)
            /\ UNCHANGED store
       ELSE LET flag == componentIndex[t]
                i == FirstIndexOf(entities, uuid)
            IN IF i = 0
               THEN /\ last' = Call("RemoveComponent", uuid, t, <<>>, 0,
                                    "EntityNotFound", <<>>, <<>>)
                    /\ UNCHANGED store
               ELSE /\ entities' = [entities EXCEPT ![i].bitfield = Clear(@, flag)]
                    /\ UNCHANGED <<entityIndex, bitIndex, componentIndex>>
                    /\ IF t \notin DOMAIN individualComponentVecs
                       THEN \* find() returned end(): dereferencing it is undefined;
                            \* the call either faults or walks an empty range
                            /\ \E outcome \in {"crash", "ok"} :
                                  last' = Call("RemoveComponent", uuid, t, <<>>, 0,
                                               outcome, <<>>, <<>>)
                            /\ UNCHANGED <<components, individualComponentVecs>>
                       ELSE LET vec == individualComponentVecs[t]
                                found == FirstIndexOf(vec, uuid) # 0
                                data == Touch(components[t], uuid, DefaultValue)
                            IN /\ individualComponentVecs' =
                                     [individualComponentVecs EXCEPT
                                         ![t] = EraseFirst(vec, uuid)]
                               /\ components' =
                                     IF found THEN [components EXCEPT ![t] = data]
                                     ELSE components
                               /\ last' =
                                     [Call("RemoveComponent", uuid, t, <<>>, 0, "ok",
                                           IF found
                                           THEN <<Event("ComponentRemoved", uuid, t,
                                                        data[uuid])>>
                                           ELSE <<>>,
                                           <<>>)
                                      EXCEPT !.seen =
                                          IF found
                                          THEN SeenIn(RemoveBroadcastView(uuid, t), uuid, t)
                                          ELSE NothingSeen]

\* -------------------------------------------------------- GetComponent
\* TRUE when the loop of GetComponent reaches its return &container->data[entity]
Found(uuid, t) ==
    \E i \in 1..Len(entities) :
        entities[i].UUID = uuid /\ Has(entities[i].bitfield, componentIndex[t])

\* the value the returned pointer points at, NullPtr for nullptr (t registered)
GetComponentValue(uuid, t) ==
    IF Found(uuid, t)
    THEN Touch(components[t], uuid, DefaultValue)[uuid]
    ELSE NullPtr

GetComponent(uuid, t) ==
    /\ UNCHANGED subscribers
    /\ IF ~ComponentIsRegistered(t)
       THEN /\ last' = Call("GetComponent", uuid, t, <<>>, 0,
                            "ComponentNotRegistered", <<>>, <<>>)
            /\ UNCHANGED store
       ELSE /\ components' =
                 IF Found(uuid, t)
                 THEN [components EXCEPT ![t] = Touch(@, uuid, DefaultValue)]
                 ELSE components
            /\ last' = Call("GetComponent", uuid, t, <<>>, 0, "ok", <<>>,
                            <<GetComponentValue(uuid, t)>>)
            /\ UNCHANGED <<entityIndex, bitIndex, entities, componentIndex,
                           individualComponentVecs>>

\* HasComponent of a registered type
HasComponent(uuid, t) == GetComponentValue(uuid, t) # NullPtr

\* -------------------------------------------------------- EntitiesWith
\* position of the first name that is not registered, 0 when all are
FirstUnregistered(names) ==
    IF \E i \in 1..Len(names) : ~ComponentIsRegistered(names[i])
    THEN CHOOSE i \in 1..Len(names) :
            /\ ~ComponentIsRegistered(names[i])
            /\ \A j \in 1..(i - 1) : ComponentIsRegistered(names[j])
    ELSE 0

\* individualComponentVecs after operator[] has been applied to names[1..n]
VecsTouched(names, n) ==
    [x \in DOMAIN individualComponentVecs \cup {names[i] : i \in 1..n} |->
        IF x \in DOMAIN individualComponentVecs
        THEN individualComponentVecs[x] ELSE <<>>]

\* the flags of all names, or-ed together
CombinedField(names) ==
    UNION {Set({}, componentIndex[names[i]]) : i \in 1..Len(names)}

\* std::min_element over the list sizes: the first name with a shortest list
SmallestComponentList(names, vecs) ==
    names[CHOOSE i \in 1..Len(names) :
            /\ \A j \in 1..Len(names) : Len(vecs[names[i]]) <= Len(vecs[names[j]])
            /\ \A j \in 1..(i - 1) : Len(vecs[names[j]]) > Len(vecs[names[i]])]

\* the records of the searched copy the returned pointers point at
Requested(names, vecs) ==
    SelectSeq(vecs[SmallestComponentList(names, vecs)],
              LAMBDA e : Has(e.bitfield, CombinedField(names)))

\* what the caller reads through pointers whose pointee is gone: the bytes last
\* written there when the memory is still intact, anything otherwise
ReadDangling(ptrs, intact) ==
    [i \in 1..Len(ptrs) |-> IF intact THEN ptrs[i] ELSE Garbage]

EntitiesWith(names) ==
    /\ UNCHANGED subscribers
    /\ IF Len(names) = 0
       THEN \* every pointer is the address of the loop variable e, which holds
            \* the copy of the last entity when the loop ends
            /\ \E intact \in BOOLEAN :
                  last' = [Call("EntitiesWith", -1, 0, names, 0, "ok", <<>>,
                                ReadDangling([i \in 1..Len(entities) |->
                                                 entities[Len(entities)]], intact))
                           EXCEPT !.intact = intact]
            /\ UNCHANGED store
       ELSE LET bad == FirstUnregistered(names)
            IN IF bad # 0
               THEN /\ individualComponentVecs' = VecsTouched(names, bad - 1)
                    /\ last' = Call("EntitiesWith", -1, 0, names, 0,
                                    "ComponentNotRegistered", <<>>, <<>>)
                    /\ UNCHANGED <<entityIndex, bitIndex, entities, components,
                                   componentIndex>>
               ELSE LET vecs == VecsTouched(names, Len(names))
                    IN /\ individualComponentVecs' = vecs
                       /\ \E intact \in BOOLEAN :
                             last' = [Call("EntitiesWith", -1, 0, names, 0, "ok", <<>>,
                                           ReadDangling(Requested(names, vecs), intact))
                                      EXCEPT !.intact = intact]
                       /\ UNCHANGED <<entityIndex, bitIndex, entities, components,
                                      componentIndex>>

\* ---------------------------------------------------------------- Spec
\* a call that faulted ends the program
Running == last.outcome # "crash"

\* the total length of the membership vectors
RECURSIVE SumLen(_, _)
SumLen(f, S) ==
    IF S = {} THEN 0
    ELSE LET x == CHOOSE y \in S : TRUE IN Len(f[x]) + SumLen(f, S \ {x})

IndexRoom(n) == SumLen(individualComponentVecs, DOMAIN individualComponentVecs) < n

QueryArgs == UNION {[1..n -> Types] : n \in 0..MaxQueryLen}

DoCreateEntity == Running /\ entityIndex < MaxEntities /\ CreateEntity

DoRegisterComponent == Running /\ \E t \in Types : RegisterComponent(t)

DoAddComponent ==
    /\ Running
    /\ IndexRoom(MaxIndexLen)
    /\ \E uuid \in UUIDs, t \in Types, v \in Values : AddComponent(uuid, t, v)

DoRemoveComponent == Running /\ \E uuid \in UUIDs, t \in Types : RemoveComponent(uuid, t)

DoGetComponent == Running /\ \E uuid \in UUIDs, t \in Types : GetComponent(uuid, t)

DoEntitiesWith == Running /\ \E names \in QueryArgs : EntitiesWith(names)

Next ==
    \/ DoCreateEntity
    \/ DoRegisterComponent
    \/ DoAddComponent
    \/ DoRemoveComponent
    \/ DoGetComponent
    \/ DoEntitiesWith

Spec == Init /\ [][Next]_vars

\* ------------------------------------------------------------- SpecCap
\* The registry driven to the end of the mask: the types are registered in
\* the order 1, 2, ..., W + 2 and components are added only for the probe
\* types (the first type, the type given the last bit, the first type past it).
CapTypes == 1..(W + 2)

CapProbe == {1, W, W + 1}

CapUUIDs == 0..(MaxCapEntities - 1)

CapCreateEntity == Running /\ entityIndex < MaxCapEntities /\ CreateEntity

CapRegisterComponent ==
    /\ Running
    /\ \E t \in CapTypes :
          /\ t <= Cardinality(DOMAIN components) + 1
          /\ ComponentIsRegistered(t) => t \in CapProbe
          /\ RegisterComponent(t)

CapAddComponent ==
    /\ Running
    /\ IndexRoom(MaxCapAdds)
    /\ \E uuid \in CapUUIDs, t \in CapProbe : AddComponent(uuid, t, 1)

CapGetComponent == Running /\ \E uuid \in CapUUIDs, t \in CapProbe : GetComponent(uuid, t)

CapEntitiesWith == Running /\ \E t \in CapProbe : EntitiesWith(<<t>>)

NextCap ==
    \/ CapCreateEntity
    \/ CapRegisterComponent
    \/ CapAddComponent
    \/ CapGetComponent
    \/ CapEntitiesWith

SpecCap == Init /\ [][NextCap]_vars

\* ----------------------------------------------- Subscribe, Broadcast
\* Subscribe<E>(handler): the handler is appended to the subscribers of E
Subscribe(key, h) ==
    /\ subscribers' = Put(subscribers, key, Append(SubscribersOf(key), h))
    /\ last' = Call("Subscribe", -1, key.name, <<>>, h, "ok", <<>>, <<key>>)
    /\ UNCHANGED store

\* the event of the event manager's own tests, with its payload
ExampleEvent(payload) == Event("ExampleEvent", -1, 0, payload)

\* Broadcast<E>(event) called from outside the store
Broadcast(ev) ==
    /\ last' = Call("Broadcast", -1, 0, <<>>, ev.value, "ok", <<ev>>, <<>>)
    /\ UNCHANGED store
    /\ UNCHANGED subscribers

\* ----------------------------------------------------------- SpecEvents
\* The store with subscribers: one component type, handlers 1..MaxHandlers.
EvTypes == {1}

EvUUIDs == 0..(MaxEvEntities - 1)

Handlers == 1..MaxHandlers

EvKeys ==
    {[kind |-> "EntityCreated", name |-> 0], [kind |-> "ExampleEvent", name |-> 0]}
    \cup {[kind |-> k, name |-> t] : k \in {"ComponentAdded", "ComponentRemoved"},
                                     t \in EvTypes}

\* the number of subscriptions made
RECURSIVE SubscriptionCount(_)
SubscriptionCount(S) ==
    IF S = {} THEN 0
    ELSE LET x == CHOOSE y \in S : TRUE
         IN Len(subscribers[x]) + SubscriptionCount(S \ {x})

EvSubscribe ==
    /\ Running
    /\ SubscriptionCount(DOMAIN subscribers) < MaxSubscriptions
    /\ \E key \in EvKeys, h \in Handlers : Subscribe(key, h)

EvBroadcast == Running /\ \E payload \in Values : Broadcast(ExampleEvent(payload))

EvCreateEntity == Running /\ entityIndex < MaxEvEntities /\ CreateEntity

EvRegisterComponent == Running /\ \E t \in EvTypes : RegisterComponent(t)

EvAddComponent ==
    /\ Running
    /\ IndexRoom(MaxEvAdds)
    /\ \E uuid \in EvUUIDs, t \in EvTypes, v \in Values : AddComponent(uuid, t, v)

EvRemoveComponent ==
    Running /\ \E uuid \in EvUUIDs, t \in EvTypes : RemoveComponent(uuid, t)

NextEvents ==
    \/ EvSubscribe
    \/ EvBroadcast
    \/ EvCreateEntity
    \/ EvRegisterComponent
    \/ EvAddComponent
    \/ EvRemoveComponent

SpecEvents == Init /\ [][NextEvents]_vars

\* ---------------------------------------------------- claim vocabulary
Live(uuid) == \E i \in 1..Len(entities) : entities[i].UUID = uuid

LiveUUIDs == {entities[i].UUID : i \in 1..Len(entities)}

\* the number of records of entity uuid in the membership index of t
Occurrences(uuid, t) ==
    IF t \in DOMAIN individualComponentVecs
    THEN Cardinality({i \in 1..Len(individualComponentVecs[t]) :
                         individualComponentVecs[t][i].UUID = uuid})
    ELSE 0

InIndex(uuid, t) == Occurrences(uuid, t) > 0

ResultUUIDs == {last.result[i].UUID : i \in 1..Len(last.result)}

Returned(op) == last.op = op /\ last.outcome = "ok"

\* --------------------------------------------------------------- claims
\* C1: right after a successful AddComponent<T>(e, v), HasComponent<T>(e) is
\* true and GetComponent<T>(e) yields v, also when e already had T.
C1_AddThenHasAndGet ==
    Returned("AddComponent") =>
        /\ HasComponent(last.entity, last.name)
        /\ GetComponentValue(last.entity, last.name) = last.value

\* C1 witness: a successful second add of T to e with value 2 (two records of
\* e in T's index) while the other value is possible as the older one.
C1_Witness ==
    /\ Returned("AddComponent")
    /\ last.value = 2
    /\ Occurrences(last.entity, last.name) = 2
    /\ components[last.name][last.entity] = 2

\* C2: EntitiesWith(A, B) returns exactly the live entities that have both A
\* and B (stated for the case that the returned pointers still read the
\* records the query selected).
C2_EntitiesWithBothExact ==
    (Returned("EntitiesWith") /\ Len(last.names) = 2 /\ last.intact) =>
        ResultUUIDs = {u \in LiveUUIDs : /\ HasComponent(u, last.names[1])
                                          /\ HasComponent(u, last.names[2])}

\* C3: after RemoveComponent<T>(e) on a live entity e for which AddComponent<T>
\* was called before, HasComponent<T>(e) is false and e is not in T's index.
C3_RemoveClearsMembership ==
    (/\ Returned("RemoveComponent")
     /\ last.entity \in DOMAIN components[last.name]) =>
        /\ ~HasComponent(last.entity, last.name)
        /\ ~InIndex(last.entity, last.name)

\* C4: an entity is in T's membership index iff its mask in the entity table
\* has T's bit set.
C4_IndexIffMaskBit ==
    \A t \in DOMAIN componentIndex : \A i \in 1..Len(entities) :
        InIndex(entities[i].UUID, t) <=> Has(entities[i].bitfield, componentIndex[t])

\* C5: the first W distinct registrations succeed, the (W+1)-th fails with
\* CapacityExceeded, and a failing registration leaves the flags of the types
\* registered before it as they were.
C5_CapacityAtMaskWidth ==
    [][\A t \in CapTypes :
        (/\ last'.op = "RegisterComponent"
         /\ last'.name = t
         /\ ~ComponentIsRegistered(t)) =>
            LET n == Cardinality(DOMAIN components) + 1
            IN /\ n <= W => last'.outcome = "ok"
               /\ n = W + 1 => last'.outcome = "CapacityExceeded"
               /\ \A x \in DOMAIN componentIndex :
                     componentIndex'[x] = componentIndex[x]]_vars

\* C6: no entity occurs more than once in the membership index of a type.
C6_NoDuplicateInIndex ==
    \A t \in DOMAIN individualComponentVecs : \A u \in LiveUUIDs :
        Occurrences(u, t) <= 1

\* C7: RemoveComponent<T>(e) on a live e that does not have the registered T
\* fails with ComponentNotPresent, changes nothing and broadcasts nothing.
C7_RemoveAbsentFails ==
    [][(/\ last'.op = "RemoveComponent"
        /\ ComponentIsRegistered(last'.name)
        /\ Live(last'.entity)
        /\ ~HasComponent(last'.entity, last'.name)) =>
            /\ last'.outcome = "ComponentNotPresent"
            /\ last'.events = <<>>
            /\ UNCHANGED store]_vars

\* C8: AddComponent<T>(e, v) with T registered and e not live fails with
\* EntityNotFound, changes nothing and broadcasts nothing.
C8_AddToUnknownEntityAtomic ==
    [][(/\ last'.op = "AddComponent"
        /\ ComponentIsRegistered(last'.name)
        /\ ~Live(last'.entity)) =>
            /\ last'.outcome = "EntityNotFound"
            /\ last'.events = <<>>
            /\ UNCHANGED store]_vars

\* C9: EntitiesWith(T) returns exactly the live entities that have T (stated
\* for the case that the returned pointers still read the selected records).
C9_EntitiesWithOneExact ==
    (Returned("EntitiesWith") /\ Len(last.names) = 1 /\ last.intact) =>
        ResultUUIDs = {u \in LiveUUIDs : HasComponent(u, last.names[1])}

\* C10: EntitiesWith() returns every entity created so far, each once (stated
\* for the case that the returned pointers still read what was last written).
C10_EntitiesWithNoneAll ==
    (Returned("EntitiesWith") /\ Len(last.names) = 0 /\ last.intact) =>
        /\ Len(last.result) = entityIndex
        /\ ResultUUIDs = 0..(entityIndex - 1)

\* C11: registering an already registered type again raises no error and
\* changes nothing: not the type's flag, not its storage, not the bit allocator.
C11_RegisterIdempotent ==
    [][(/\ last'.op = "RegisterComponent"
        /\ ComponentIsRegistered(last'.name)) =>
            /\ last'.outcome = "ok"
            /\ UNCHANGED store]_vars

\* C11 witness: a registration of a type whose storage already holds a value,
\* so it was registered before.
C11_Witness ==
    /\ Returned("RegisterComponent")
    /\ ComponentIsRegistered(last.name)
    /\ components[last.name] # <<>>
    /\ bitIndex = {1}

\* C12: a broadcast invokes every handler subscribed to the event's type once
\* per subscription, in subscription order, each with the event broadcast; a
\* call that broadcasts nothing invokes no handler.
C12_BroadcastInSubscriptionOrder ==
    /\ last.events = <<>> => last.delivered = <<>>
    /\ Len(last.events) = 1 =>
          LET subs == SubscribersOf(EventKey(last.events[1]))
          IN /\ Len(last.delivered) = Len(subs)
             /\ \A i \in 1..Len(subs) :
                   /\ last.delivered[i].handler = subs[i]
                   /\ last.delivered[i].event = last.events[1]
    /\ Len(last.events) <= 1

\* C12 witness: handler 2 and then handler 1 subscribed to ComponentAdded<T>;
\* one AddComponent<T> invoked 2 and then 1.
C12_Witness ==
    /\ Returned("AddComponent")
    /\ Len(last.delivered) = 2
    /\ last.delivered[1].handler = 2
    /\ last.delivered[2].handler = 1

\* C13: broadcasting an event whose type has no subscribers raises no error,
\* invokes no handler and leaves the subscriber lists unchanged; a Broadcast
\* from outside the store also leaves the store unchanged.
C13_BroadcastWithoutSubscribers ==
    [][(/\ last'.events # <<>>
        /\ SubscribersOf(EventKey(last'.events[1])) = <<>>) =>
            /\ last'.outcome = "ok"
            /\ last'.delivered = <<>>
            /\ UNCHANGED subscribers
            /\ last'.op = "Broadcast" => UNCHANGED store]_vars

\* C13 witness: a Broadcast of an event without subscribers while another
\* event type has some.
C13_Witness ==
    /\ Returned("Broadcast")
    /\ last.delivered = <<>>
    /\ DOMAIN subscribers # {}

\* TRUE when the call names a component type that is not registered
NamesUnregistered(call) ==
    \/ /\ call.op \in {"AddComponent", "RemoveComponent"}
       /\ ~ComponentIsRegistered(call.name)
    \/ /\ call.op = "EntitiesWith"
       /\ \E i \in 1..Len(call.names) : ~ComponentIsRegistered(call.names[i])

\* C14: AddComponent, RemoveComponent and EntitiesWith naming an unregistered
\* type fail with ComponentNotRegistered, change no mask, no stored value and
\* the contents of no membership index, and broadcast nothing.
C14_UnregisteredRejected ==
    [][NamesUnregistered(last') =>
          /\ last'.outcome = "ComponentNotRegistered"
          /\ last'.events = <<>>
          /\ UNCHANGED <<entities, components>>
          /\ \A t \in DOMAIN individualComponentVecs \cup DOMAIN individualComponentVecs' :
                (IF t \in DOMAIN individualComponentVecs'
                 THEN individualComponentVecs'[t] ELSE <<>>) = VecOf(t)]_vars

\* C14 witness: EntitiesWith(A, B) with A registered and B not: the call has
\* failed after it reached A's (empty) vector.
C14_Witness ==
    /\ last.op = "EntitiesWith"
    /\ last.outcome = "ComponentNotRegistered"
    /\ Len(last.names) = 2
    /\ ComponentIsRegistered(last.names[1])
    /\ last.names[1] \in DOMAIN individualComponentVecs
    /\ Len(entities) > 0

\* C15: the k-th CreateEntity (k from 0) does not fail, returns the entity
\* with id k and an empty mask, appends it to the list leaving the others as
\* they were and broadcasts one EntityCreated; ids in the list are distinct.
C15_CreateEntitySequential ==
    [][/\ \A i, j \in 1..Len(entities') :
             i # j => entities'[i].UUID # entities'[j].UUID
       /\ last'.op = "CreateEntity" =>
             LET e == [UUID |-> Len(entities), bitfield |-> {}]
             IN /\ last'.outcome = "ok"
                /\ last'.result = <<e>>
                /\ entities' = Append(entities, e)
                /\ last'.events = <<Event("EntityCreated", e.UUID, 0, 0)>>]_vars

\* C15 witness: the second entity was created while the first holds a component.
C15_Witness ==
    /\ Returned("CreateEntity")
    /\ last.entity = 1
    /\ entities[1].bitfield # {}

\* C16: every registered type has a flag with exactly one bit set, and no two
\* registered types have the same flag.
C16_FlagsDistinctPowersOfTwo ==
    \A t \in DOMAIN componentIndex :
        /\ Cardinality(componentIndex[t]) = 1
        /\ \A u \in DOMAIN componentIndex \ {t} : componentIndex[u] # componentIndex[t]

\* the entities EntitiesWith(names) selects in the current state
Selected(names) ==
    LET req == Requested(names, VecsTouched(names, Len(names)))
    IN {req[i].UUID : i \in 1..Len(req)}

\* C17: EntitiesWith(A, B) and EntitiesWith(B, A) select the same entities.
C17_QueryOrderIrrelevant ==
    \A a, b \in DOMAIN components : Selected(<<a, b>>) = Selected(<<b, a>>)

\* C18: a successful AddComponent<T>(e, v) broadcasts exactly one
\* ComponentAdded<T> with e and v, every handler invoked gets that event, and
\* during the broadcast HasComponent<T>(e) is true, GetComponent<T>(e) is v and
\* e is in T's index.
C18_AddedBroadcastAfterUpdate ==
    Returned("AddComponent") =>
        /\ last.events = <<Event("ComponentAdded", last.entity, last.name, last.value)>>
        /\ \A i \in 1..Len(last.delivered) : last.delivered[i].event = last.events[1]
        /\ last.seen.has
        /\ last.seen.value = last.value
        /\ last.seen.occurrences >= 1

\* C18 witness: a subscribed handler was invoked by an add that replaced the
\* value of a component the entity already had.
C18_Witness ==
    /\ Returned("AddComponent")
    /\ Len(last.delivered) >= 1
    /\ last.value = 2
    /\ Occurrences(last.entity, last.name) = 2

\* C19: RemoveComponent<T>(e) on an entity that has T broadcasts exactly one
\* ComponentRemoved<T> with e and the value last given to AddComponent<T>(e, .),
\* and during the broadcast HasComponent<T>(e) is false and e is not in T's index.
C19_RemovedBroadcastAfterUpdate ==
    [][(/\ last'.op = "RemoveComponent"
        /\ ComponentIsRegistered(last'.name)
        /\ HasComponent(last'.entity, last'.name)) =>
            /\ last'.events = <<Event("ComponentRemoved", last'.entity, last'.name,
                                      components[last'.name][last'.entity])>>
            /\ ~last'.seen.has
            /\ last'.seen.occurrences = 0]_vars

\* C20: every record in a membership index carries the mask of the entity of
\* the same id in the entity table.
C20_IndexRecordsCurrent ==
    \A t \in DOMAIN individualComponentVecs :
        \A i \in 1..Len(individualComponentVecs[t]) : \A j \in 1..Len(entities) :
            individualComponentVecs[t][i].UUID = entities[j].UUID =>
                individualComponentVecs[t][i].bitfield = entities[j].bitfield

====
